---- MODULE Spec2Model ----
(***************************************************************************)
(* Model of prospector/tools/pylint/__init__.py: the PylintTool adapter.   *)
(*                                                                         *)
(* A path is a sequence of segments; an absolute path starts with the      *)
(* segment "/".  The empty path <<>> is the empty string "".  A message    *)
(* text is a sequence of tokens (see the section on combine).              *)
(***************************************************************************)
EXTENDS Naturals, Integers, Sequences, FiniteSets, TLC

VARIABLES
    sys_path,           \* the process-wide sys.path
    _orig_sys_path,     \* self._orig_sys_path
    _linter,            \* self._linter: None or the configured linter
    _collector,         \* self._collector: None or the collector
    _args,              \* self._args
    prospector_config,  \* argument of the last configure call
    found_files,        \* the FileFinder handed to configure / the reducer
    env,                \* what the environment answers (imports, files on disk)
    messages,           \* the list handed to combine
    result,             \* outcome of the last call: [op, raised, value]
    hist                \* history: what the calls so far did

vars == <<sys_path, _orig_sys_path, _linter, _collector, _args,
          prospector_config, found_files, env, messages, result, hist>>

\* Python's None, and a value that is not None: an optional value is a
\* sequence of length 0 or 1
None == <<>>

Some(x) == <<x>>

Get(o) == o[1]

\* Body applied to the value of an expression written once
Let(value, Body(_)) == Body(value)

(***************************************************************************)
(* Sequences and paths                                                     *)
(***************************************************************************)
Range(s) == {s[i] : i \in 1..Len(s)}

Front(s) == SubSeq(s, 1, Len(s) - 1)

Last(s) == s[Len(s)]

NoDup(s) == \A i, j \in 1..Len(s) : i # j => s[i] # s[j]

\* all sequences over S of length at most n
SeqsUpTo(S, n) == UNION {[1..k -> S] : k \in 0..n}

\* p is q or a proper ancestor directory of q
IsPrefix(p, q) == Len(p) <= Len(q) /\ SubSeq(q, 1, Len(p)) = p

Cwd == <<"/", "w">>

\* pathlib.Path.absolute: an absolute path is kept, a relative one is anchored
\* at the working directory
Absolute(p) == IF p # <<>> /\ p[1] = "/" THEN p ELSE Cwd \o p

\* FileFinder.to_absolute_path
to_absolute_path(p) == Absolute(p)

\* os.path.split: (head, tail)
Split(p) == <<Front(p), <<Last(p)>>>>

\* os.path.join(*parts) of relative components; "" contributes nothing
RECURSIVE Join(_)
Join(parts) ==
    IF parts = <<>> THEN <<>> ELSE parts[1] \o Join(Tail(parts))

\* os.path.dirname(filepath).split(os.path.sep): "".split gives [""]
DirnameSplit(filepath) ==
    IF Len(filepath) <= 1 THEN << <<>> >>
    ELSE [i \in 1..(Len(filepath) - 1) |-> <<filepath[i]>>]

\* list.sort(key=len): stable insertion sort by length
RECURSIVE InsertByLen(_, _)
InsertByLen(sorted, x) ==
    IF sorted = <<>> THEN <<x>>
    ELSE IF Len(Last(sorted)) <= Len(x) THEN Append(sorted, x)
    ELSE Append(InsertByLen(Front(sorted), x), Last(sorted))

RECURSIVE SortByLen(_)
SortByLen(s) ==
    IF s = <<>> THEN <<>> ELSE InsertByLen(SortByLen(Front(s)), Last(s))

(***************************************************************************)
(* _get_pylint_check_paths                                                 *)
(***************************************************************************)
\* one turn of the loop over the packages (lines 148-157)
PackageStep(check_paths, package) ==
    LET package_path == Join(package)
    IN  IF Len(package) = 1 THEN check_paths \cup {package_path}
        ELSE IF \E i \in 1..(Len(package) - 1) :
                    Join(SubSeq(package, 1, Len(package) - i)) \in check_paths
             THEN check_paths
             ELSE check_paths \cup {package_path}

\* ModuleStep looking only at the directory the module is in
ModuleStep_ParentOnly(check_paths, filepath) ==
    IF Join(DirnameSplit(filepath)) \in check_paths THEN check_paths
    ELSE check_paths \cup {filepath}

\* one turn of the loop over the modules (lines 158-164)
ModuleStep(check_paths, filepath) ==
    LET package == DirnameSplit(filepath)
    IN  IF \E i \in 0..(Len(package) - 1) :
               Join(SubSeq(package, 1, i + 1)) \in check_paths
        THEN check_paths
        ELSE check_paths \cup {filepath}

RECURSIVE PackageLoop(_, _)
PackageLoop(check_paths, packages) ==
    IF packages = <<>> THEN check_paths
    ELSE PackageLoop(PackageStep(check_paths, packages[1]), Tail(packages))

RECURSIVE ModuleLoop(_, _)
ModuleLoop(check_paths, modules) ==
    IF modules = <<>> THEN check_paths
    ELSE ModuleLoop(ModuleStep(check_paths, modules[1]), Tail(modules))

\* the set of scan roots the method returns (it returns them as a list built
\* from a set, so in no particular order)
_get_pylint_check_paths(ff) ==
    LET packages == SortByLen([i \in 1..Len(ff.packages) |-> Split(ff.packages[i])])
        check_paths == ModuleLoop(PackageLoop({}, packages), ff.modules)
    IN  {to_absolute_path(p) : p \in check_paths}

(***************************************************************************)
(* Messages.  A text is a sequence of tokens: the fixed phrases of the     *)
(* pylint message and of the combined message, and the symbol names.       *)
(*   "Unused import(s) foo from wildcard import"  is                       *)
(*       <<"Unused import", "(s)", " ", "foo", " from wildcard import">>   *)
(*   "Unused imports from wildcard import: foo, bar"  is                   *)
(*       <<"Unused import", "s", " from wildcard import", ": ",            *)
(*         "foo", ", ", "bar">>                                            *)
(***************************************************************************)
Location(path, module, function, line, character) ==
    [path |-> path, module |-> module, function |-> function,
     line |-> line, character |-> character]

Message(source, code, location, text) ==
    [source |-> source, code |-> code, location |-> location, message |-> text]

Max(S) == CHOOSE x \in S : \A y \in S : y <= x

\* _UNUSED_WILDCARD_IMPORT_RE.match(text): None, or the groups of
\* ^Unused import(\(s\))? (.*) from wildcard import
\* group 1 is the optional "(s)", group 2 the (greedy) text before the last
\* " from wildcard import"
_UNUSED_WILDCARD_IMPORT_RE(text) ==
    IF Len(text) = 0 \/ text[1] # "Unused import" THEN None
    ELSE LET k == IF Len(text) >= 2 /\ text[2] = "(s)" THEN 3 ELSE 2
             ends == {j \in (k + 1)..Len(text) : text[j] = " from wildcard import"}
         IN  IF Len(text) < k \/ text[k] # " " \/ ends = {} THEN None
             ELSE Some([g1 |-> IF k = 3 THEN Some(<<"(s)">>) ELSE None,
                        g2 |-> Some(SubSeq(text, k + 1, Max(ends) - 1))])

\* the group the code reads from a match: .group(1)
MatchedName(m) == Get(m).g1

\* ", ".join(names), every name being a string (not None)
RECURSIVE JoinNames(_)
JoinNames(names) ==
    IF Len(names) = 1 THEN Get(names[1])
    ELSE Get(names[1]) \o <<", ">> \o JoinNames(Tail(names))

\* the code the synthesized message carries (line 219)
CombinedCode == "unused-wildcard-import"

\* the locations of the unused-wildcard-import messages, in the order in
\* which by_loc first meets them (dict insertion order)
RECURSIVE LocationsInOrder(_)
LocationsInOrder(msgs) ==
    IF msgs = <<>> THEN <<>>
    ELSE LET rest == LocationsInOrder(Front(msgs))
             m == Last(msgs)
         IN  IF m.code = "unused-wildcard-import" /\ m.location \notin Range(rest)
             THEN Append(rest, m.location) ELSE rest

\* by_loc[location]
ByLoc(msgs, location) ==
    SelectSeq(msgs, LAMBDA m : m.code = "unused-wildcard-import" /\ m.location = location)

\* what the body of the loop of lines 213-220 does for one location: the
\* exception it raises, or "none"
GroupRaises(message_list) ==
    IF \E i \in 1..Len(message_list) :
           _UNUSED_WILDCARD_IMPORT_RE(message_list[i].message) = None
    THEN "AttributeError"      \* None.group(1)
    ELSE IF \E i \in 1..Len(message_list) :
                MatchedName(_UNUSED_WILDCARD_IMPORT_RE(message_list[i].message)) = None
         THEN "TypeError"      \* ", ".join of a None
         ELSE "none"

GroupMessage(location, message_list) ==
    LET names == [i \in 1..Len(message_list) |->
                     MatchedName(_UNUSED_WILDCARD_IMPORT_RE(message_list[i].message))]
        msgtxt == <<"Unused import", "s", " from wildcard import", ": ">> \o JoinNames(names)
    IN  Message("pylint", CombinedCode, location, msgtxt)

\* _combine_w0614: [raised, value]
_combine_w0614(msgs) ==
    LET out == SelectSeq(msgs, LAMBDA m : m.code # "unused-wildcard-import")
        locs == LocationsInOrder(msgs)
        bad == {i \in 1..Len(locs) : GroupRaises(ByLoc(msgs, locs[i])) # "none"}
    IN  IF bad # {}
        THEN [raised |-> GroupRaises(ByLoc(msgs, locs[CHOOSE i \in bad : \A j \in bad : i <= j])),
              value |-> None]
        ELSE [raised |-> "none",
              value |-> out \o [i \in 1..Len(locs) |-> GroupMessage(locs[i], ByLoc(msgs, locs[i]))]]

\* the total order over messages that sorted() uses: location, code, source,
\* text
TokenRank(t) ==
    CASE t = "Unused import" -> 1 [] t = "(s)" -> 2 [] t = " " -> 3
      [] t = " from wildcard import" -> 4 [] t = ", " -> 5 [] t = ": " -> 6
      [] t = "bar" -> 7 [] t = "foo" -> 8 [] t = "s" -> 9 [] OTHER -> 10

RECURSIVE TextLt(_, _)
TextLt(a, b) ==
    IF b = <<>> THEN FALSE
    ELSE IF a = <<>> THEN TRUE
    ELSE IF TokenRank(a[1]) # TokenRank(b[1]) THEN TokenRank(a[1]) < TokenRank(b[1])
    ELSE TextLt(Tail(a), Tail(b))

CodeRank(c) ==
    CASE c = "unused-import" -> 1 [] c = "unused-wildcard-import" -> 2 [] OTHER -> 3

LocationLt(a, b) == a.line < b.line

MessageLt(a, b) ==
    IF a.location # b.location THEN LocationLt(a.location, b.location)
    ELSE IF a.code # b.code THEN CodeRank(a.code) < CodeRank(b.code)
    ELSE TextLt(a.message, b.message)

RECURSIVE InsertMessage(_, _)
InsertMessage(sorted, x) ==
    IF sorted = <<>> THEN <<x>>
    ELSE IF ~MessageLt(x, Last(sorted)) THEN Append(sorted, x)
    ELSE Append(InsertMessage(Front(sorted), x), Last(sorted))

RECURSIVE Sorted(_)
Sorted(s) ==
    IF s = <<>> THEN <<>> ELSE InsertMessage(Sorted(Front(s)), Last(s))

\* combine: [raised, value]
combine(msgs) ==
    Let(_combine_w0614(msgs), LAMBDA combined :
        IF combined.raised # "none" THEN combined
        ELSE [raised |-> "none", value |-> Sorted(combined.value)])

(***************************************************************************)
(* The engine: ProspectorLinter, seen through the calls the adapter makes. *)
(* A linter is a record: the target paths it was loaded with, the plugins  *)
(* loaded, the enabled state of each code, the value of each checker       *)
(* option, the plugin list of its configuration, its reporter and its job  *)
(* count.  A call gives [raised, linter].                                  *)
(***************************************************************************)
KnownCodes ==
    {"X", "Y", "locally-disabled", "file-ignored", "suppressed-message",
     "deprecated-pragma", "similarities"}

Checkers == <<"format", "pep8ext", "raw">>

\* hasattr(checker, "options")
HasOptions(checker) == checker # "raw"

\* checker.options, by name (option[0])
CheckerOptions(checker) ==
    CASE checker = "format" -> <<"max-line-length", "indent-string">>
      [] checker = "pep8ext" -> <<"max-line-length">>
      [] OTHER -> <<>>

DefaultPlugins == {"pylint.extensions.default"}

\* ProspectorLinter(found_files): the engine's built-in defaults
ProspectorLinter(ff) ==
    [targets |-> None,
     plugins |-> {},
     enabled |-> [c \in KnownCodes |->
                    c \notin {"file-ignored", "suppressed-message"}],
     options |-> [k \in {<<"format", "max-line-length">>, <<"format", "indent-string">>,
                         <<"pep8ext", "max-line-length">>} |->
                    IF k[2] = "max-line-length" THEN 100 ELSE 4],
     load_plugins |-> <<>>,
     config_file |-> None,
     reporter |-> "text",
     jobs |-> 1]

\* linter.load_command_line_configuration(paths): the arguments left over
\* are the target paths
load_command_line_configuration(linter, paths) ==
    [linter |-> [linter EXCEPT !.targets = Some(paths)], args |-> paths]

load_default_plugins(linter) ==
    [linter EXCEPT !.plugins = @ \cup DefaultPlugins]

\* linter.load_plugin_modules([plugin]): an import error when the plugin
\* module cannot be imported
load_plugin_modules(linter, plugin, e) ==
    IF plugin \in e.importable
    THEN [raised |-> "none", linter |-> [linter EXCEPT !.plugins = @ \cup {plugin}]]
    ELSE [raised |-> "ImportError", linter |-> linter]

\* linter.disable(msg_id) / linter.enable(msg_id)
disable(linter, msg_id) ==
    IF msg_id \in KnownCodes
    THEN [raised |-> "none", linter |-> [linter EXCEPT !.enabled[msg_id] = FALSE]]
    ELSE [raised |-> "UnknownMessageError", linter |-> linter]

enable(linter, msg_id) ==
    IF msg_id \in KnownCodes
    THEN [raised |-> "none", linter |-> [linter EXCEPT !.enabled[msg_id] = TRUE]]
    ELSE [raised |-> "UnknownMessageError", linter |-> linter]

\* checker.set_option(name, value)
set_option(linter, checker, name, value) ==
    [linter EXCEPT !.options[<<checker, name>>] = value]

RECURSIVE ApplyAll(_, _, _)
\* apply Op(linter, x).linter for each x of the sequence xs, in order
ApplyAll(Op(_, _), linter, xs) ==
    IF xs = <<>> THEN linter
    ELSE ApplyAll(Op, Op(linter, xs[1]).linter, Tail(xs))

\* a set as a sequence, in some fixed order
RECURSIVE SetToSeq(_)
SetToSeq(S) ==
    IF S = {} THEN <<>>
    ELSE LET x == CHOOSE y \in S : TRUE IN <<x>> \o SetToSeq(S \ {x})

\* linter.config_from_file(pylintrc): reads the file into the configuration
\* (its disable and enable lists, its options, its plugin list, its job
\* count) and says whether it loaded the plugins itself.  The read of a file
\* that is missing or malformed fails.
config_from_file(linter, pylintrc, e) ==
    LET rc == e.rc
        l1 == ApplyAll(disable, linter, SetToSeq(rc.disable))
        l2 == ApplyAll(enable, l1, SetToSeq(rc.enable))
        l3 == [l2 EXCEPT !.load_plugins = rc.load_plugins,
                         !.jobs = rc.jobs,
                         !.config_file = Some(pylintrc),
                         !.plugins = IF rc.plugins_loaded
                                     THEN @ \cup (Range(rc.load_plugins) \cap e.importable)
                                     ELSE @]
    IN  IF pylintrc \in e.unreadable
        THEN [raised |-> "ConfigFileError", linter |-> linter, are_plugins_loaded |-> FALSE]
        ELSE [raised |-> "none", linter |-> l3, are_plugins_loaded |-> rc.plugins_loaded]

(***************************************************************************)
(* PylintTool: configuration                                               *)
(***************************************************************************)
\* options.get(key): None when the key is absent
OptionGet(options, key) ==
    IF key \in DOMAIN options THEN Some(options[key]) ELSE None

\* Python truth of an optional path: None and "" are false
Truthy(o) == o # None /\ Get(o) # <<>>

\* a or b
Or(a, b) == IF Truthy(a) THEN a ELSE b

_error_message(filepath, message) ==
    Message("prospector", "config-problem", Location(filepath, None, None, 0, 0), message)

\* LoadPluginsRecording with every import error passed over in silence
RECURSIVE LoadPluginsRecording_Silent(_, _, _, _)
LoadPluginsRecording_Silent(linter, plugins, filepath, e) ==
    IF plugins = <<>> THEN [linter |-> linter, errors |-> <<>>]
    ELSE LoadPluginsRecording_Silent(load_plugin_modules(linter, plugins[1], e).linter,
                                     Tail(plugins), filepath, e)

\* the try/except ImportError around load_plugin_modules (lines 44-47 and
\* 96-99), for the plugins of one list: [linter, errors]
RECURSIVE LoadPluginsRecording(_, _, _, _)
LoadPluginsRecording(linter, plugins, filepath, e) ==
    IF plugins = <<>> THEN [linter |-> linter, errors |-> <<>>]
    ELSE Let(load_plugin_modules(linter, plugins[1], e), LAMBDA loaded :
             Let(LoadPluginsRecording(loaded.linter, Tail(plugins), filepath, e),
                 LAMBDA rest :
                     IF loaded.raised = "ImportError"
                     THEN [rest EXCEPT !.errors =
                             <<_error_message(filepath,
                                              <<"Could not load plugin ", plugins[1]>>)>> \o @]
                     ELSE rest))

\* lines 35-40: the plugins loaded for the library hints, in this order; the
\* calls are not guarded, so the first import error leaves the method
RECURSIVE LoadAutoPlugins(_, _, _, _)
LoadAutoPlugins(linter, libraries, hints, e) ==
    IF hints = <<>> THEN [raised |-> "none", linter |-> linter]
    ELSE IF hints[1][1] \notin libraries
         THEN LoadAutoPlugins(linter, libraries, Tail(hints), e)
         ELSE Let(load_plugin_modules(linter, hints[1][2], e), LAMBDA loaded :
                  IF loaded.raised # "none" THEN loaded
                  ELSE LoadAutoPlugins(loaded.linter, libraries, Tail(hints), e))

AutoPlugins ==
    << <<"django", "pylint_django">>, <<"celery", "pylint_celery">>,
       <<"flask", "pylint_flask">> >>

\* lines 49-55: disabling an unknown code is passed over
DisableIgnoringUnknown(linter, msg_id) ==
    [raised |-> "none", linter |-> disable(linter, msg_id).linter]

\* lines 59-64: every option of every checker that the tool options name
RECURSIVE SetCheckerOptions(_, _, _)
SetCheckerOptions(linter, keys, options) ==
    IF keys = <<>> THEN linter
    ELSE LET checker == keys[1][1]
             name == keys[1][2]
             next == IF HasOptions(checker) /\ name \in DOMAIN options
                     THEN set_option(linter, checker, name, options[name])
                     ELSE linter
         IN  SetCheckerOptions(next, Tail(keys), options)

\* lines 78-84: the maximum line length, on every checker that has the option
RECURSIVE SetMaxLineLength(_, _, _)
SetMaxLineLength(linter, keys, max_line_length) ==
    IF keys = <<>> THEN linter
    ELSE LET checker == keys[1][1]
             name == keys[1][2]
             next == IF HasOptions(checker) /\ max_line_length # None
                        /\ name = "max-line-length"
                     THEN set_option(linter, checker, "max-line-length", Get(max_line_length))
                     ELSE linter
         IN  SetMaxLineLength(next, Tail(keys), max_line_length)

\* the (checker, option) pairs in the order the two loops visit them
RECURSIVE CheckerOptionPairs(_)
CheckerOptionPairs(checkers) ==
    IF checkers = <<>> THEN <<>>
    ELSE [o \in 1..Len(CheckerOptions(checkers[1])) |->
             <<checkers[1], CheckerOptions(checkers[1])[o]>>]
         \o CheckerOptionPairs(Tail(checkers))

\* lines 72-75
NotificationToggles(linter) ==
    LET l1 == disable(linter, "locally-disabled").linter
        l2 == enable(l1, "file-ignored").linter
        l3 == enable(l2, "suppressed-message").linter
    IN  disable(l3, "deprecated-pragma").linter

\* ProfileOverrides with the notification codes set before the profile's
\* disabled messages are applied
ProfileOverrides_TogglesFirst(config, linter) ==
    SetMaxLineLength(
        SetCheckerOptions(
            ApplyAll(DisableIgnoringUnknown, NotificationToggles(linter),
                     config.disabled_messages),
            CheckerOptionPairs(Checkers), config.options),
        CheckerOptionPairs(Checkers), config.max_line_length)

\* ProfileOverrides with the maximum line length set before the options of
\* the checkers
ProfileOverrides_MaxLineLengthFirst(config, linter) ==
    NotificationToggles(
        SetCheckerOptions(
            SetMaxLineLength(
                ApplyAll(DisableIgnoringUnknown, linter, config.disabled_messages),
                CheckerOptionPairs(Checkers), config.max_line_length),
            CheckerOptionPairs(Checkers), config.options))

\* lines 49-85, on the linter the plugins were loaded into
ProfileOverrides(config, linter) ==
    SetMaxLineLength(
        NotificationToggles(
            SetCheckerOptions(
                ApplyAll(DisableIgnoringUnknown, linter, config.disabled_messages),
                CheckerOptionPairs(Checkers), config.options)),
        CheckerOptionPairs(Checkers), config.max_line_length)

\* _prospector_configure: [raised, linter, errors]
_prospector_configure(config, linter, e) ==
    Let(LoadAutoPlugins(linter, config.libraries, AutoPlugins, e), LAMBDA auto :
        IF auto.raised # "none"
        THEN [raised |-> auto.raised, linter |-> auto.linter, errors |-> <<>>]
        ELSE Let(LoadPluginsRecording(auto.linter, config.load_plugins,
                                      Join(<<config.workdir, config.profile_name>>), e),
                 LAMBDA plugged :
                     [raised |-> "none",
                      linter |-> ProfileOverrides(config, plugged.linter),
                      errors |-> plugged.errors]))

\* _pylintrc_configure: [raised, linter, errors]; a failure of
\* config_from_file (line 93) is not caught
_pylintrc_configure(pylintrc, linter, e) ==
    Let(config_from_file(linter, pylintrc, e), LAMBDA read :
        IF read.raised # "none"
        THEN [raised |-> read.raised, linter |-> read.linter, errors |-> <<>>]
        ELSE IF ~read.are_plugins_loaded
        THEN Let(LoadPluginsRecording(read.linter, read.linter.load_plugins, pylintrc, e),
                 LAMBDA plugged :
                     [raised |-> "none", linter |-> plugged.linter,
                      errors |-> plugged.errors])
        ELSE [raised |-> "none", linter |-> read.linter, errors |-> <<>>])

\* lines 183-189: the first file of the fallback list that exists
RECURSIVE FirstExisting(_, _, _)
FirstExisting(workdir, names, e) ==
    IF names = <<>> THEN None
    ELSE LET pylintrc_path == Join(<<workdir, <<names[1]>>>>)
         IN  IF pylintrc_path \in e.existing THEN Some(pylintrc_path)
             ELSE FirstExisting(workdir, Tail(names), e)

FallbackNames == <<".pylintrc", "pylintrc", "pyproject.toml", "setup.cfg">>

\* FindPylintrc with the engine's locator asked before the tool options and
\* the external location
FindPylintrc_LocatorFirst(config, pylint_options, e) ==
    LET pylintrc == OptionGet(pylint_options, "config_file")
        external_config == config.external_config_location
        chosen == Or(Or(e.find_pylintrc, pylintrc), external_config)
    IN  IF chosen = None THEN FirstExisting(config.workdir, FallbackNames, e)
        ELSE chosen

\* lines 179-189: the external file to load, or None
FindPylintrc(config, pylint_options, e) ==
    LET pylintrc == OptionGet(pylint_options, "config_file")
        external_config == config.external_config_location
        chosen == Or(Or(pylintrc, external_config), e.find_pylintrc)
    IN  IF chosen = None THEN FirstExisting(config.workdir, FallbackNames, e)
        ELSE chosen

\* lines 177-196, after the profile layer gave profile: the external file
\* layer and what the method returns
ExternalLayer(profile, pylintrc, args, e) ==
    IF pylintrc = None
    THEN [raised |-> "none", linter |-> profile.linter, args |-> args,
          config_messages |-> profile.errors, configured_by |-> None]
    ELSE Let(_pylintrc_configure(Get(pylintrc), profile.linter, e), LAMBDA file :
             [raised |-> file.raised, linter |-> file.linter, args |-> args,
              config_messages |-> profile.errors \o file.errors,
              configured_by |-> pylintrc])

\* _get_pylint_configuration with the external file read before the profile
\* is applied
_get_pylint_configuration_FileFirst(check_paths, linter, config, pylint_options, e) ==
    Let(load_command_line_configuration(linter, check_paths), LAMBDA loaded :
        Let(IF config.use_external_config
            THEN FindPylintrc(config, pylint_options, e) ELSE None,
            LAMBDA pylintrc :
                Let(IF pylintrc = None
                    THEN [raised |-> "none", linter |-> load_default_plugins(loaded.linter),
                          errors |-> <<>>]
                    ELSE _pylintrc_configure(Get(pylintrc),
                                             load_default_plugins(loaded.linter), e),
                    LAMBDA file :
                        Let(_prospector_configure(config, file.linter, e),
                            LAMBDA profile :
                                [raised |-> IF file.raised # "none" THEN file.raised
                                            ELSE profile.raised,
                                 linter |-> profile.linter,
                                 args |-> loaded.args,
                                 config_messages |-> profile.errors \o file.errors,
                                 configured_by |->
                                     IF profile.raised = "none" THEN pylintrc
                                     ELSE None]))))

\* _get_pylint_configuration without the test of use_external_config
_get_pylint_configuration_AlwaysExternal(check_paths, linter, config, pylint_options, e) ==
    Let(load_command_line_configuration(linter, check_paths), LAMBDA loaded :
        Let(_prospector_configure(config, load_default_plugins(loaded.linter), e),
            LAMBDA profile :
                IF profile.raised # "none"
                THEN [raised |-> profile.raised, linter |-> profile.linter,
                      args |-> loaded.args, config_messages |-> <<>>,
                      configured_by |-> None]
                ELSE ExternalLayer(profile, FindPylintrc(config, pylint_options, e),
                                   loaded.args, e)))

\* _get_pylint_configuration: [raised, linter, args, config_messages, configured_by]
_get_pylint_configuration(check_paths, linter, config, pylint_options, e) ==
    Let(load_command_line_configuration(linter, check_paths), LAMBDA loaded :
        Let(_prospector_configure(config, load_default_plugins(loaded.linter), e),
            LAMBDA profile :
                IF profile.raised # "none"
                THEN [raised |-> profile.raised, linter |-> profile.linter,
                      args |-> loaded.args, config_messages |-> <<>>,
                      configured_by |-> None]
                ELSE ExternalLayer(profile,
                                   IF config.use_external_config
                                   THEN FindPylintrc(config, pylint_options, e)
                                   ELSE None,
                                   loaded.args, e)))

(***************************************************************************)
(* Bounds of the model                                                     *)
(***************************************************************************)
\* calls made on one instance
MaxCalls == 2
\* entries of the initial sys.path
MaxSysPath == 2
\* entries of found_files.make_syspath()
MaxExtra == 1
\* messages handed to combine
MaxMessages == 3
\* segments of a package or module path
MaxDepth == 3
\* packages and modules found
MaxPackages == 3
MaxModules == 1

(***************************************************************************)
(* PylintTool: the search path, configure and run                          *)
(***************************************************************************)
\* every order in which the elements of S can be listed
Perms(S) == {p \in [1..Cardinality(S) -> S] : Range(p) = S}

\* _set_path_finder without the test of use_pylint_default_path_finder
_set_path_finder_Always(extra_sys_path, pylint_options, path) ==
    Perms({Absolute(extra_sys_path[i]) : i \in 1..Len(extra_sys_path)} \cup Range(path))

\* _set_path_finder: the values sys.path can have after it.  list(set(...))
\* lists the distinct entries in the iteration order of a set of strings,
\* which differs from one process to the next.
_set_path_finder(extra_sys_path, pylint_options, path) ==
    IF OptionGet(pylint_options, "use_pylint_default_path_finder") = Some(TRUE)
    THEN {path}
    ELSE Perms({Absolute(extra_sys_path[i]) : i \in 1..Len(extra_sys_path)}
               \cup Range(path))

\* found_files.python_packages + found_files.python_modules
PythonPaths(ff) ==
    [i \in 1..Len(ff.packages) |-> to_absolute_path(ff.packages[i])]
    \o [i \in 1..Len(ff.modules) |-> to_absolute_path(ff.modules[i])]

\* Collector(linter.msgs_store)
Collector == [messages |-> <<>>]

\* lines 117-126: what configure does to the linter once it is configured
FinishLinter(linter, e) ==
    LET quiet == disable(linter, "similarities").linter
        reporting == [quiet EXCEPT !.reporter = "collector"]
    IN  IF reporting.jobs = 0 THEN [reporting EXCEPT !.jobs = e.cpu_count]
        ELSE reporting

\* the stage of the instance after a call
StageAfter(op, raised) ==
    IF hist.stage = "new" /\ op = "configure"
    THEN IF raised = "none" THEN "configured" ELSE "failed"
    ELSE IF hist.stage = "configured" /\ op = "run" THEN "ran"
    ELSE "other"

\* configure(prospector_config, found_files)
configure(config, ff) ==
    \E conf \in {_get_pylint_configuration(PythonPaths(ff), ProspectorLinter(ff),
                                            config, config.options, env)} :
        /\ hist.calls < MaxCalls
        /\ \E path \in _set_path_finder(ff.syspath, config.options, sys_path) :
               sys_path' = path
        /\ _orig_sys_path' = sys_path
        /\ _args' = Some(conf.args)
        /\ IF conf.raised # "none"
           THEN /\ UNCHANGED <<_linter, _collector>>
                /\ result' = [op |-> "configure", raised |-> conf.raised, value |-> None]
           ELSE /\ _collector' = Some(Collector)
                /\ _linter' = Some(FinishLinter(conf.linter, env))
                /\ result' = [op |-> "configure", raised |-> "none",
                              value |-> <<conf.configured_by, conf.config_messages>>]
        /\ prospector_config' = config
        /\ found_files' = ff
        /\ hist' = [calls |-> hist.calls + 1,
                    stage |-> StageAfter("configure", conf.raised),
                    path_before_configure |-> sys_path,
                    before_path |-> sys_path,
                    before_orig |-> _orig_sys_path,
                    was_configured |-> _linter # None,
                    assigned |-> {"_orig_sys_path", "_args"} \cup
                                 (IF conf.raised = "none"
                                  THEN {"_linter", "_collector"} ELSE {}),
                    engine_ran |-> FALSE]
        /\ UNCHANGED <<env, messages>>

\* run with sys.path restored before the linter is used
run_RestoreFirst(ff, check, msgs) ==
    /\ hist.calls < MaxCalls
    /\ sys_path' = _orig_sys_path
    /\ IF _linter = None
       THEN /\ result' = [op |-> "run", raised |-> "AttributeError", value |-> None]
            /\ UNCHANGED messages
       ELSE IF check = "raises"
       THEN /\ result' = [op |-> "run", raised |-> "EngineError", value |-> None]
            /\ UNCHANGED messages
       ELSE /\ messages' = msgs
            /\ \E combined \in {combine(msgs)} :
                   result' = [op |-> "run", raised |-> combined.raised,
                              value |-> combined.value]
    /\ hist' = [hist EXCEPT !.calls = @ + 1,
                            !.stage = StageAfter("run", "none"),
                            !.before_path = sys_path,
                            !.before_orig = _orig_sys_path,
                            !.was_configured = _linter # None,
                            !.assigned = {},
                            !.engine_ran = _linter # None]
    /\ UNCHANGED <<_orig_sys_path, _linter, _collector, _args,
                   prospector_config, found_files, env>>

\* run(found_files): check is what the engine does with the arguments, msgs
\* what the collector has gathered when the check returns
run(ff, check, msgs) ==
    /\ hist.calls < MaxCalls
    /\ IF _linter = None
       THEN \* None.check
            /\ result' = [op |-> "run", raised |-> "AttributeError", value |-> None]
            /\ UNCHANGED <<sys_path, messages>>
       ELSE IF check = "raises"
       THEN /\ result' = [op |-> "run", raised |-> "EngineError", value |-> None]
            /\ UNCHANGED <<sys_path, messages>>
       ELSE /\ sys_path' = _orig_sys_path
            /\ messages' = msgs
            /\ \E combined \in {combine(msgs)} :
                   result' = [op |-> "run", raised |-> combined.raised,
                              value |-> combined.value]
    /\ hist' = [hist EXCEPT !.calls = @ + 1,
                            !.stage = StageAfter("run", "none"),
                            !.before_path = sys_path,
                            !.before_orig = _orig_sys_path,
                            !.was_configured = _linter # None,
                            !.assigned = {},
                            !.engine_ran = _linter # None]
    /\ UNCHANGED <<_orig_sys_path, _linter, _collector, _args,
                   prospector_config, found_files, env>>

(***************************************************************************)
(* Inputs                                                                  *)
(***************************************************************************)
AllPlugins ==
    DefaultPlugins \cup {"pylint_django", "pylint_celery", "pylint_flask", "p1", "p2"}

NoFile ==
    [enable |-> {}, disable |-> {}, load_plugins |-> <<>>, jobs |-> 1,
     plugins_loaded |-> TRUE]

BaseEnv ==
    [importable |-> AllPlugins, find_pylintrc |-> None, existing |-> {},
     unreadable |-> {}, rc |-> NoFile, cpu_count |-> 2]

BaseConfig ==
    [libraries |-> {}, workdir |-> Cwd, profile_name |-> <<"profile.yaml">>,
     load_plugins |-> <<>>, disabled_messages |-> <<>>, options |-> <<>>,
     max_line_length |-> None, use_external_config |-> FALSE,
     external_config_location |-> None]

NoFiles == [packages |-> <<>>, modules |-> <<>>, syspath |-> <<>>]

NoHist ==
    [calls |-> 0, stage |-> "new", path_before_configure |-> <<>>, before_path |-> <<>>,
     before_orig |-> <<>>, was_configured |-> FALSE, assigned |-> {},
     engine_ran |-> FALSE]

NoResult == [op |-> "none", raised |-> "none", value |-> None]

\* the state of a new PylintTool (lines 27-30) in a process whose search
\* path is path
NewInstance(path) ==
    /\ sys_path = path
    /\ _orig_sys_path = <<>>
    /\ _linter = None
    /\ _collector = None
    /\ _args = None
    /\ result = NoResult
    /\ hist = NoHist

\* messages the engine reports
WildcardMessage(form, name, line) ==
    Message("pylint", "unused-wildcard-import", Location("m.py", None, None, line, 0),
            IF form = "old"
            THEN <<"Unused import", " ", name, " from wildcard import">>
            ELSE <<"Unused import", "(s)", " ", name, " from wildcard import">>)

OtherMessage(line) ==
    Message("pylint", "unused-import", Location("m.py", None, None, line, 0),
            <<"Unused import", " ", "os">>)

EngineMessages ==
    {WildcardMessage(form, name, line) :
        form \in {"old", "new"}, name \in {"foo", "bar"}, line \in {1, 2}}
    \cup {OtherMessage(line) : line \in {1, 2}}

(***************************************************************************)
(* Spec: one adapter instance and the search path of its process           *)
(***************************************************************************)
SysPathEntries == {<<"/", "lib">>, <<"/", "w", "proj">>}

ExtraPaths == {<<"proj">>}

PathConfigs ==
    {[BaseConfig EXCEPT !.libraries = libraries, !.options = options] :
        libraries \in {{}, {"django"}},
        options \in {<<>>, "use_pylint_default_path_finder" :> TRUE}}

PathFiles == {[NoFiles EXCEPT !.syspath = s] : s \in SeqsUpTo(ExtraPaths, MaxExtra)}

Init ==
    /\ \E path \in SeqsUpTo(SysPathEntries, MaxSysPath) : NewInstance(path)
    /\ env = [BaseEnv EXCEPT !.importable = AllPlugins \ {"pylint_django"}]
    /\ prospector_config = BaseConfig
    /\ found_files = NoFiles
    /\ messages = <<>>

Configure == \E config \in PathConfigs, ff \in PathFiles : configure(config, ff)

Run ==
    \E check \in {"returns", "raises"},
       msgs \in {<<>>, <<WildcardMessage("new", "foo", 1)>>,
                 <<WildcardMessage("old", "foo", 1)>>} :
        run(found_files, check, msgs)

Next == Configure \/ Run

Spec == Init /\ [][Next]_vars

(***************************************************************************)
(* SpecCombine: combine on a list of messages, and on its own result       *)
(***************************************************************************)
InitCombine ==
    /\ NewInstance(<<>>)
    /\ messages \in SeqsUpTo(EngineMessages, MaxMessages)
    /\ env = BaseEnv
    /\ prospector_config = BaseConfig
    /\ found_files = NoFiles

Combine ==
    /\ result.op = "none"
    /\ \E combined \in {combine(messages)} :
           result' = [op |-> "combine", raised |-> combined.raised,
                      value |-> combined.value]
    /\ UNCHANGED <<sys_path, _orig_sys_path, _linter, _collector, _args,
                   prospector_config, found_files, env, messages, hist>>

\* combine applied to the list the last combine returned
CombineAgain ==
    /\ result.op = "combine"
    /\ result.raised = "none"
    /\ messages' = result.value
    /\ \E combined \in {combine(result.value)} :
           result' = [op |-> "combine again", raised |-> combined.raised,
                      value |-> combined.value]
    /\ UNCHANGED <<sys_path, _orig_sys_path, _linter, _collector, _args,
                   prospector_config, found_files, env, hist>>

NextCombine == Combine \/ CombineAgain

SpecCombine == InitCombine /\ [][NextCombine]_vars

(***************************************************************************)
(* SpecReduce: _get_pylint_check_paths on the packages and modules found   *)
(***************************************************************************)
\* the directories of the project: a chain of nested directories a, a/b,
\* a/b/c, ... of up to MaxDepth segments, and two more directories x and a/x
Chain == <<"a", "b", "c", "d", "e", "f">>

PackagePaths ==
    {SubSeq(Chain, 1, k) : k \in 1..MaxDepth} \cup {<<"x">>, <<"a", "x">>}

ModulePaths ==
    {d \o <<"m.py">> : d \in {<<>>} \cup {p \in PackagePaths : Len(p) < MaxDepth}}

InitReduce ==
    /\ NewInstance(<<>>)
    /\ \E packages \in SeqsUpTo(PackagePaths, MaxPackages),
          modules \in SeqsUpTo(ModulePaths, MaxModules) :
           /\ NoDup(packages)
           /\ NoDup(modules)
           /\ found_files = [NoFiles EXCEPT !.packages = packages, !.modules = modules]
    /\ env = BaseEnv
    /\ prospector_config = BaseConfig
    /\ messages = <<>>

GetPylintCheckPaths ==
    /\ result.op = "none"
    /\ result' = [op |-> "_get_pylint_check_paths", raised |-> "none",
                  value |-> _get_pylint_check_paths(found_files)]
    /\ UNCHANGED <<sys_path, _orig_sys_path, _linter, _collector, _args,
                   prospector_config, found_files, env, messages, hist>>

NextReduce == GetPylintCheckPaths

SpecReduce == InitReduce /\ [][NextReduce]_vars

(***************************************************************************)
(* SpecConfig: configure on a new instance, over profiles, library hints,  *)
(* importable plugins and external files                                   *)
(***************************************************************************)
RcFiles ==
    {NoFile,
     [NoFile EXCEPT !.enable = {"X"}],
     [NoFile EXCEPT !.enable = {"X", "locally-disabled", "similarities"},
                    !.disable = {"Y"}],
     [NoFile EXCEPT !.load_plugins = <<"p2">>, !.plugins_loaded = FALSE, !.jobs = 0]}

MergeEnvs ==
    {[BaseEnv EXCEPT !.importable = AllPlugins \ missing, !.rc = rc,
                     !.existing = existing] :
        missing \in {{}, {"pylint_django"}, {"pylint_flask"}, {"p1"}, {"p2"}},
        rc \in RcFiles,
        existing \in {{}, {Cwd \o <<".pylintrc">>}}}

MergeConfigs ==
    {[BaseConfig EXCEPT !.libraries = libraries, !.load_plugins = load_plugins,
                        !.disabled_messages = disabled_messages,
                        !.use_external_config = use_external_config,
                        !.options = options] :
        libraries \in {{}, {"django"}, {"flask"}, {"django", "celery", "flask"}},
        load_plugins \in {<<>>, <<"p1">>, <<"p1", "p2">>},
        disabled_messages \in {<<>>, <<"X">>, <<"gone", "X", "file-ignored">>},
        use_external_config \in BOOLEAN,
        options \in {<<>>, "config_file" :> <<"opt.rc">>}}

ProjectFiles == [packages |-> <<<<"a">>>>, modules |-> <<<<"m.py">>>>, syspath |-> <<>>]

InitConfig ==
    /\ NewInstance(<<<<"/", "lib">>>>)
    /\ env \in MergeEnvs
    /\ prospector_config = BaseConfig
    /\ found_files = NoFiles
    /\ messages = <<>>

ConfigureNew ==
    /\ hist.stage = "new"
    /\ \E config \in MergeConfigs : configure(config, ProjectFiles)

RunConfigured ==
    \E check \in {"returns", "raises"} : run(found_files, check, <<>>)

NextConfig == ConfigureNew \/ RunConfigured

SpecConfig == InitConfig /\ [][NextConfig]_vars

(***************************************************************************)
(* SpecDiscover: configure on a new instance, over the places an external  *)
(* file can come from, files that cannot be read, and nested packages      *)
(***************************************************************************)
OptionFile == <<"opt.rc">>

LocationFile == <<"ext.rc">>

LocatorFile == <<"/", "home", ".pylintrc">>

DiscoverEnvs ==
    {[BaseEnv EXCEPT !.find_pylintrc = find_pylintrc, !.existing = existing,
                     !.unreadable = unreadable, !.rc.enable = {"X"}] :
        find_pylintrc \in {None, Some(LocatorFile)},
        existing \in {{}, {Cwd \o <<"pylintrc">>},
                      {Cwd \o <<"pyproject.toml">>, Cwd \o <<"setup.cfg">>},
                      {Cwd \o <<".pylintrc">>, Cwd \o <<"setup.cfg">>}},
        unreadable \in {{}, {OptionFile}, {Cwd \o <<"pylintrc">>}}}

\* config_file is absent, a path, or the empty string
DiscoverConfigs ==
    {[BaseConfig EXCEPT !.options = options,
                        !.external_config_location = external_config_location,
                        !.use_external_config = use_external_config] :
        options \in {<<>>, "config_file" :> OptionFile, "config_file" :> <<>>},
        external_config_location \in {None, Some(LocationFile)},
        use_external_config \in BOOLEAN}

NestedFiles ==
    [packages |-> <<<<"a">>, <<"a", "b">>>>, modules |-> <<<<"a", "m.py">>>>,
     syspath |-> <<>>]

DiscoverFiles == {ProjectFiles, NestedFiles}

InitDiscover ==
    /\ NewInstance(<<<<"/", "lib">>>>)
    /\ env \in DiscoverEnvs
    /\ prospector_config = BaseConfig
    /\ found_files = NoFiles
    /\ messages = <<>>

ConfigureDiscover ==
    /\ hist.stage = "new"
    /\ \E config \in DiscoverConfigs, ff \in DiscoverFiles : configure(config, ff)

RunDiscovered ==
    \E check \in {"returns", "raises"} : run(found_files, check, <<>>)

NextDiscover == ConfigureDiscover \/ RunDiscovered

SpecDiscover == InitDiscover /\ [][NextDiscover]_vars

(***************************************************************************)
(* SpecProfile: configure on a new instance, over the profile's disabled   *)
(* messages, the tool options and the project's maximum line length        *)
(***************************************************************************)
ProfileEnvs ==
    {[BaseEnv EXCEPT !.existing = existing, !.rc = rc] :
        existing \in {{}, {Cwd \o <<".pylintrc">>}},
        rc \in {NoFile, [NoFile EXCEPT !.enable = {"locally-disabled"},
                                       !.disable = {"file-ignored"}]}}

ProfileConfigs ==
    {[BaseConfig EXCEPT !.options = options, !.max_line_length = max_line_length,
                        !.disabled_messages = disabled_messages,
                        !.use_external_config = use_external_config] :
        options \in {<<>>, "max-line-length" :> 80,
                     ("max-line-length" :> 80) @@ ("indent-string" :> 2)},
        max_line_length \in {None, Some(120), Some(80)},
        disabled_messages \in {<<>>, <<"X">>,
                               <<"file-ignored", "suppressed-message", "X">>,
                               <<"locally-disabled", "deprecated-pragma", "gone">>},
        use_external_config \in BOOLEAN}

InitProfile ==
    /\ NewInstance(<<<<"/", "lib">>>>)
    /\ env \in ProfileEnvs
    /\ prospector_config = BaseConfig
    /\ found_files = NoFiles
    /\ messages = <<>>

ConfigureProfile ==
    /\ hist.stage = "new"
    /\ \E config \in ProfileConfigs : configure(config, ProjectFiles)

RunProfiled ==
    \E check \in {"returns", "raises"} : run(found_files, check, <<>>)

NextProfile == ConfigureProfile \/ RunProfiled

SpecProfile == InitProfile /\ [][NextProfile]_vars

(***************************************************************************)
(* Properties of the search path and of the life cycle (Spec)              *)
(***************************************************************************)
\* the position of the first occurrence of x in s
FirstIndex(s, x) == CHOOSE i \in 1..Len(s) : s[i] = x /\ \A j \in 1..(i - 1) : s[j] # x

\* the option use_pylint_default_path_finder of the last configure
UsesDefaultPathFinder ==
    OptionGet(prospector_config.options, "use_pylint_default_path_finder") = Some(TRUE)

\* C1: when a run that started with a (completed) configure and then called
\* run has terminated, on any exit path of run, sys.path is the list it was
\* immediately before configure was called.
C1_PathRestoredAfterRun ==
    hist.stage = "ran" => sys_path = hist.path_before_configure

\* C7: a second configure on an instance that is already configured fails
\* with an invalid-state error and replaces neither the saved search path
\* nor the linter nor the collector, and leaves sys.path alone.
C7_SecondConfigureRejected ==
    (result.op = "configure" /\ hist.was_configured) =>
        /\ result.raised = "InvalidStateError"
        /\ hist.assigned \cap {"_orig_sys_path", "_linter", "_collector"} = {}
        /\ _orig_sys_path = hist.before_orig
        /\ sys_path = hist.before_path

\* C8: run on an instance on which configure has not completed fails (the
\* None linter has no check: AttributeError), the engine is not executed
\* and sys.path is what it was before the call.
C8_RunBeforeConfigureFails ==
    (result.op = "run" /\ ~hist.was_configured) =>
        /\ result.raised = "AttributeError"
        /\ ~hist.engine_ran
        /\ sys_path = hist.before_path
        /\ _orig_sys_path = hist.before_orig

C8_Witness ==
    /\ result.op = "run"
    /\ ~hist.was_configured
    /\ hist.before_path # <<>>
    /\ sys_path = hist.before_path

\* C9: when use_pylint_default_path_finder is not set, after configure
\* sys.path holds the absolute extra paths and the previous entries, each
\* once, every new extra path before every previous entry and the previous
\* entries in their previous order.
C9_ExtraPathsPrepended ==
    (result.op = "configure" /\ ~UsesDefaultPathFinder) =>
        LET previous == hist.before_path
            extra == {Absolute(found_files.syspath[i]) : i \in 1..Len(found_files.syspath)}
        IN  /\ Range(sys_path) = extra \cup Range(previous)
            /\ NoDup(sys_path)
            /\ \A i, j \in 1..Len(sys_path) :
                   (sys_path[i] \notin Range(previous) /\ sys_path[j] \in Range(previous))
                       => i < j
            /\ \A i, j \in 1..Len(sys_path) :
                   (i < j /\ sys_path[i] \in Range(previous) /\ sys_path[j] \in Range(previous))
                       => FirstIndex(previous, sys_path[i]) < FirstIndex(previous, sys_path[j])

\* C15: when use_pylint_default_path_finder is set, configure saves the
\* current sys.path and leaves sys.path as it was: the same entries in the
\* same order.
C15_DefaultPathFinderKeepsPath ==
    (result.op = "configure" /\ UsesDefaultPathFinder) =>
        /\ sys_path = hist.before_path
        /\ _orig_sys_path = hist.before_path

C15_Witness ==
    /\ result.op = "configure"
    /\ UsesDefaultPathFinder
    /\ found_files.syspath # <<>>
    /\ Absolute(found_files.syspath[1]) \notin Range(sys_path)
    /\ Len(sys_path) = 2
    /\ sys_path = hist.before_path
    /\ _orig_sys_path = sys_path

(***************************************************************************)
(* Properties of combine (SpecCombine)                                     *)
(***************************************************************************)
\* C2: combine applied to a list combine returned completes and returns
\* that list.
C2_CombineIdempotent ==
    result.op = "combine again" =>
        /\ result.raised = "none"
        /\ result.value = messages

\* the symbol name a message of the engine carries
EmbeddedName(m) == m.message[Len(m.message) - 1]

\* C3: two unused-wildcard-import messages at one location that name the
\* symbols a and b, in this order, are combined into the one message
\* "Unused imports from wildcard import: a, b" at that location.
C3_NamesJoinedInOrder ==
    (/\ result.op = "combine"
     /\ Len(messages) = 2
     /\ messages[1].code = "unused-wildcard-import"
     /\ messages[2].code = "unused-wildcard-import"
     /\ messages[1].location = messages[2].location
     /\ EmbeddedName(messages[1]) # EmbeddedName(messages[2])) =>
        /\ result.raised = "none"
        /\ result.value =
             <<Message("pylint", "unused-wildcard-import", messages[1].location,
                       <<"Unused import", "s", " from wildcard import", ": ",
                         EmbeddedName(messages[1]), ", ", EmbeddedName(messages[2])>>)>>

\* how many times x occurs in the sequence s
Count(s, x) == Cardinality({i \in 1..Len(s) : s[i] = x})

\* the list out is the list in with every message of another code kept as
\* often as it occurs, one unused-wildcard-import message for each location
\* of the unused-wildcard-import messages of in, and it is sorted
CombinedShape(in, out) ==
    /\ \A m \in Range(in) \cup Range(out) :
           m.code # "unused-wildcard-import" => Count(out, m) = Count(in, m)
    /\ \A location \in {in[i].location : i \in 1..Len(in)}
                       \cup {out[i].location : i \in 1..Len(out)} :
           Cardinality({i \in 1..Len(out) :
                           /\ out[i].code = "unused-wildcard-import"
                           /\ out[i].location = location})
             = IF \E i \in 1..Len(in) : /\ in[i].code = "unused-wildcard-import"
                                        /\ in[i].location = location
               THEN 1 ELSE 0
    /\ \A i, j \in 1..Len(out) : i < j => ~MessageLt(out[j], out[i])

\* C18: for every list of messages combine returns a list: the messages of
\* other codes unchanged and as often, one synthesized message for each
\* location of the unused-wildcard-import messages, sorted.
C18_CombineReturnsShape ==
    result.op = "combine" =>
        /\ result.raised = "none"
        /\ CombinedShape(messages, result.value)

(***************************************************************************)
(* Properties of the scan roots (SpecReduce)                               *)
(***************************************************************************)
\* the paths handed to the reducer, as absolute paths
InputPaths ==
    {to_absolute_path(found_files.packages[i]) : i \in 1..Len(found_files.packages)}
    \cup {to_absolute_path(found_files.modules[i]) : i \in 1..Len(found_files.modules)}

\* C4: no scan root is an ancestor of another scan root.
C4_NoRootUnderAnother ==
    result.op = "_get_pylint_check_paths" =>
        \A p, q \in result.value : p # q => ~IsPrefix(p, q)

\* C5: every package and every module handed in is covered by exactly one
\* scan root (the root is the path or one of its ancestors).
C5_CoveredByExactlyOneRoot ==
    result.op = "_get_pylint_check_paths" =>
        \A p \in InputPaths : Cardinality({r \in result.value : IsPrefix(r, p)}) = 1

\* C14: a module that lies under a directory retained as a scan root is not
\* retained; the package a and the module a/m.py under it give exactly {a}.
C14_ModuleUnderRootDropped ==
    result.op = "_get_pylint_check_paths" =>
        /\ \A i \in 1..Len(found_files.modules) :
               LET module == to_absolute_path(found_files.modules[i])
               IN  (\E root \in result.value : root # module /\ IsPrefix(root, module))
                       => module \notin result.value
        /\ (found_files.packages = <<<<"a">>>> /\ found_files.modules = <<<<"a", "m.py">>>>)
               => result.value = {to_absolute_path(<<"a">>)}

C14_Witness ==
    /\ result.op = "_get_pylint_check_paths"
    /\ found_files.packages = <<<<"a">>, <<"x">>>>
    /\ found_files.modules = <<<<"a", "b", "m.py">>>>
    /\ result.value = {to_absolute_path(<<"a">>), to_absolute_path(<<"x">>)}

(***************************************************************************)
(* Properties of the configuration (SpecConfig)                            *)
(***************************************************************************)
\* the codes configure itself puts into a fixed state
AdapterForcedCodes ==
    {"similarities", "locally-disabled", "file-ignored", "suppressed-message",
     "deprecated-pragma"}

\* the last call was a configure that loaded an external file
LoadedExternalFile ==
    /\ result.op = "configure"
    /\ result.raised = "none"
    /\ result.value[1] # None

\* C6: a code the profile disables and the loaded external file enables is
\* enabled after configure, unless it is a code the adapter forces.
C6_FileLayerWins ==
    \A code \in KnownCodes \ AdapterForcedCodes :
        (/\ LoadedExternalFile
         /\ code \in Range(prospector_config.disabled_messages)
         /\ code \in env.rc.enable) => Get(_linter).enabled[code]

C6_Witness ==
    /\ LoadedExternalFile
    /\ "X" \in Range(prospector_config.disabled_messages)
    /\ "X" \in env.rc.enable
    /\ Get(_linter).enabled["X"]

\* the library hints of the last configure whose plugin cannot be imported
FailingHints ==
    {AutoPlugins[i][1] : i \in {j \in 1..Len(AutoPlugins) :
        /\ AutoPlugins[j][1] \in prospector_config.libraries
        /\ AutoPlugins[j][2] \notin env.importable}}

\* what configure gives when the failing hints are left out of the
\* configuration
WithoutFailingHints ==
    _get_pylint_configuration(
        PythonPaths(found_files), ProspectorLinter(found_files),
        [prospector_config EXCEPT !.libraries = @ \ FailingHints],
        prospector_config.options, env)

\* C10: when the plugin of a library hint cannot be imported, configure does
\* not raise, records no message for it, and configures the linter as if
\* the hint had not been given.
C10_AutoPluginFailureSwallowed ==
    (result.op = "configure" /\ FailingHints # {}) =>
        /\ result.raised = "none"
        /\ result.value = <<WithoutFailingHints.configured_by,
                            WithoutFailingHints.config_messages>>
        /\ _linter = Some(FinishLinter(WithoutFailingHints.linter, env))

\* the plugins of a list that cannot be imported, in the order of the list
FailedOf(plugins) == SelectSeq(plugins, LAMBDA plugin : plugin \notin env.importable)

\* the plugins the profile names that cannot be imported
FailedProfilePlugins == FailedOf(prospector_config.load_plugins)

\* the plugins the loaded external file names that the adapter tries to load
\* (the engine has not loaded them while it read the file) and that cannot
\* be imported
FailedFilePlugins ==
    IF LoadedExternalFile /\ ~env.rc.plugins_loaded THEN FailedOf(env.rc.load_plugins)
    ELSE <<>>

ProfilePath == Join(<<prospector_config.workdir, prospector_config.profile_name>>)

\* what configure gives when the plugins that cannot be imported are left
\* out of the profile and of the external file
WithoutFailingPlugins ==
    _get_pylint_configuration(
        PythonPaths(found_files), ProspectorLinter(found_files),
        [prospector_config EXCEPT
            !.load_plugins = SelectSeq(@, LAMBDA plugin : plugin \in env.importable)],
        prospector_config.options,
        [env EXCEPT
            !.rc.load_plugins = SelectSeq(@, LAMBDA plugin : plugin \in env.importable)])

\* C11: when no library hint has stopped configure, configure does not raise
\* for plugins that cannot be imported: it returns one config-problem
\* message for each plugin of the profile's list that fails, at the profile
\* path, then one for each plugin of the external file's list that the
\* adapter fails to load, at the path of that file; and the linter is
\* configured as if the failing plugins had not been named (the other
\* plugins are loaded, every later step is applied).
C11_PluginFailuresRecorded ==
    (result.op = "configure" /\ FailingHints = {}) =>
        /\ result.raised = "none"
        /\ LET msgs == result.value[2]
               n == Len(FailedProfilePlugins)
           IN  /\ Len(msgs) = n + Len(FailedFilePlugins)
               /\ \A i \in 1..n :
                      /\ msgs[i].location.path = ProfilePath
                      /\ msgs[i].message[2] = FailedProfilePlugins[i]
               /\ \A i \in 1..Len(FailedFilePlugins) :
                      /\ msgs[n + i].location.path = Get(result.value[1])
                      /\ msgs[n + i].message[2] = FailedFilePlugins[i]
        /\ _linter = Some([FinishLinter(WithoutFailingPlugins.linter, env) EXCEPT
                              !.load_plugins = Get(_linter).load_plugins])

C11_Witness ==
    /\ result.op = "configure"
    /\ result.raised = "none"
    /\ FailedProfilePlugins = <<"p2">>
    /\ FailedFilePlugins = <<"p2">>
    /\ Len(result.value[2]) = 2
    /\ "p1" \in Get(_linter).plugins

\* C19: when external files are not to be honoured and configure returns,
\* it returns no identifier and the linter has read no file, even when the
\* tool options give a config_file or a conventional file exists; the
\* linter is configured as the default, library-hint and profile layers
\* leave it.
C19_ExternalFilesNotHonoured ==
    (/\ result.op = "configure"
     /\ result.raised = "none"
     /\ ~prospector_config.use_external_config) =>
        /\ result.value[1] = None
        /\ Get(_linter).config_file = None
        /\ _linter = Some(FinishLinter(
                              _prospector_configure(
                                  prospector_config,
                                  load_default_plugins(
                                      load_command_line_configuration(
                                          ProspectorLinter(found_files),
                                          PythonPaths(found_files)).linter),
                                  env).linter,
                              env))

C19_Witness ==
    /\ result.op = "configure"
    /\ result.raised = "none"
    /\ ~prospector_config.use_external_config
    /\ OptionGet(prospector_config.options, "config_file") # None
    /\ env.existing # {}
    /\ env.rc.enable # {}
    /\ result.value[1] = None
    /\ Get(_linter).config_file = None

(***************************************************************************)
(* Properties of the external file and of the targets (SpecDiscover)       *)
(***************************************************************************)
\* an optional path that is given: not None and not the empty string
Given(o) == o # None /\ Get(o) # <<>>

\* the file of the working directory with this name, when it exists
Conventional(name) ==
    IF Join(<<prospector_config.workdir, <<name>>>>) \in env.existing
    THEN Some(Join(<<prospector_config.workdir, <<name>>>>)) ELSE None

\* the external file the last configure is to use: the config_file option,
\* else the external location, else the engine's locator, else the first
\* conventional file that exists, else none
ExpectedFile ==
    LET option == OptionGet(prospector_config.options, "config_file")
        location == prospector_config.external_config_location
        located == env.find_pylintrc
    IN  IF Given(option) THEN option
        ELSE IF Given(location) THEN location
        ELSE IF Given(located) THEN located
        ELSE IF Conventional(".pylintrc") # None THEN Conventional(".pylintrc")
        ELSE IF Conventional("pylintrc") # None THEN Conventional("pylintrc")
        ELSE IF Conventional("pyproject.toml") # None THEN Conventional("pyproject.toml")
        ELSE Conventional("setup.cfg")

\* C12: when external files are honoured and configure returns, the file
\* the linter has read and the identifier configure returns are the first
\* given of: the config_file option, the external location, the result of
\* the engine's locator, the first existing of .pylintrc, pylintrc,
\* pyproject.toml, setup.cfg in the working directory; none when there is
\* none.
C12_DiscoveryOrder ==
    (/\ result.op = "configure"
     /\ result.raised = "none"
     /\ prospector_config.use_external_config) =>
        /\ result.value[1] = ExpectedFile
        /\ Get(_linter).config_file = ExpectedFile

C12_Witness ==
    /\ result.op = "configure"
    /\ result.raised = "none"
    /\ prospector_config.use_external_config
    /\ ~Given(OptionGet(prospector_config.options, "config_file"))
    /\ prospector_config.external_config_location = None
    /\ env.find_pylintrc = None
    /\ Cardinality(env.existing) = 2
    /\ result.value[1] = Some(Cwd \o <<"pyproject.toml">>)
    /\ Get(_linter).config_file = Some(Cwd \o <<"pyproject.toml">>)

\* the linter after the default, library-hint and profile layers of the last
\* configure
LayersOneToThree ==
    _prospector_configure(
        prospector_config,
        load_default_plugins(
            load_command_line_configuration(ProspectorLinter(found_files),
                                            PythonPaths(found_files)).linter),
        env)

\* C13: when the external file configure resolves cannot be read (it is
\* missing, or malformed), configure returns normally and the linter is
\* configured as the default, library-hint and profile layers left it.
C13_UnreadableFileTolerated ==
    (/\ result.op = "configure"
     /\ prospector_config.use_external_config
     /\ ExpectedFile # None
     /\ Get(ExpectedFile) \in env.unreadable) =>
        /\ result.raised = "none"
        /\ _linter = Some(FinishLinter(LayersOneToThree.linter, env))

\* C16: the targets configure loads into the linter, and the arguments run
\* hands to check, are the scan roots _get_pylint_check_paths gives for the
\* packages and modules found; none is an ancestor of another.
C16_TargetsAreScanRoots ==
    _linter # None =>
        /\ Range(Get(Get(_linter).targets)) = _get_pylint_check_paths(found_files)
        /\ Range(Get(_args)) = _get_pylint_check_paths(found_files)
        /\ \A i, j \in 1..Len(Get(_args)) :
               i # j => ~IsPrefix(Get(_args)[i], Get(_args)[j])

(***************************************************************************)
(* Properties of the profile layer (SpecProfile)                           *)
(***************************************************************************)
\* the last call was a configure that returned and loaded no external file
ConfiguredWithoutFile ==
    /\ result.op = "configure"
    /\ result.raised = "none"
    /\ result.value[1] = None

\* C17: after a configure that loads no external file, locally-disabled is
\* disabled, file-ignored is enabled, suppressed-message is enabled and
\* deprecated-pragma is disabled, whatever messages the profile disables.
C17_NotificationCodesFixed ==
    ConfiguredWithoutFile =>
        /\ ~Get(_linter).enabled["locally-disabled"]
        /\ Get(_linter).enabled["file-ignored"]
        /\ Get(_linter).enabled["suppressed-message"]
        /\ ~Get(_linter).enabled["deprecated-pragma"]

C17_Witness ==
    /\ ConfiguredWithoutFile
    /\ {"file-ignored", "suppressed-message"} \subseteq Range(prospector_config.disabled_messages)
    /\ Get(_linter).enabled["file-ignored"]
    /\ Get(_linter).enabled["suppressed-message"]
    /\ ~Get(_linter).enabled["X"]

\* the checkers that have the option max-line-length
LineLengthCheckers ==
    {Checkers[i] : i \in {j \in 1..Len(Checkers) :
        HasOptions(Checkers[j]) /\ "max-line-length" \in Range(CheckerOptions(Checkers[j]))}}

\* C20: after a configure that loads no external file, when the tool options
\* give max-line-length, every checker that has the option max-line-length
\* holds the project's maximum line length when that is not None, and the
\* value of the tool options when it is None.
C20_MaxLineLengthAppliedLast ==
    (ConfiguredWithoutFile /\ "max-line-length" \in DOMAIN prospector_config.options) =>
        \A checker \in LineLengthCheckers :
            Get(_linter).options[<<checker, "max-line-length">>] =
                IF prospector_config.max_line_length # None
                THEN Get(prospector_config.max_line_length)
                ELSE prospector_config.options["max-line-length"]

C20_Witness ==
    /\ ConfiguredWithoutFile
    /\ OptionGet(prospector_config.options, "max-line-length") = Some(80)
    /\ prospector_config.max_line_length = Some(120)
    /\ LineLengthCheckers = {"format", "pep8ext"}
    /\ \A checker \in LineLengthCheckers :
           Get(_linter).options[<<checker, "max-line-length">>] = 120

====
